---- MODULE Spec2Model ----
(***************************************************************************)
(* Model of the fintracker expense store: the JSON-backed Storage          *)
(* (fintracker/storage.py), the SQLite-backed Database                     *)
(* (fintracker/database.py) and the record classes (fintracker/models.py). *)
(*                                                                         *)
(* Representation choices                                                  *)
(*  - an ISO date string "YYYY-MM-DD" is the triple <<YYYY, MM, DD>>; the  *)
(*    string order SQLite uses on the date column is the lexicographic     *)
(*    order of the triples (fields are fixed width);                       *)
(*  - amounts are integers (the claims concern sums and signs only);       *)
(*  - the Cyrillic category names are transliterated to ASCII;             *)
(*  - a Python dict and an object's attributes are both TLA+ records.      *)
(***************************************************************************)
EXTENDS Integers, Sequences, FiniteSets, TLC

VARIABLES
    store,      \* which store object the program holds: "none", "json", "sqlite"
    file,       \* the JSON data file of Storage (missing, corrupt, or a document)
    db,         \* the SQLite database file of Database
    today,      \* date.today(), the local calendar date
    call,       \* the last call made on the store: [op, args, ret]
    assigned    \* history: the expense ids handed out so far, in order

vars == <<store, file, db, today, call, assigned>>

----------------------------------------------------------------------------
(* Bounds and input domains *)

\* at most this many expenses are ever added to a store
MaxAdds == 2

CategoryIds == {1, 2}
Amounts == {-1, 1}
Descriptions == {"Groceries"}
Todays == {<<2024, 3, 5>>, <<2024, 3, 15>>}
Dates == {<<2024, 2, 27>>, <<2024, 3, 20>>, <<2023, 3, 5>>}
None == <<>>
Periods == {"day", "week", "month", "year", "all"}
DeleteIds == 1..MaxAdds \cup {999}

----------------------------------------------------------------------------
(* Generic helpers *)

Range(s) == {s[i] : i \in DOMAIN s}

RECURSIVE SumAmounts(_)
SumAmounts(S) ==
    IF S = {} THEN 0
    ELSE LET e == CHOOSE x \in S : TRUE
         IN  e.amount + SumAmounts(S \ {e})

----------------------------------------------------------------------------
(* datetime.date as used by storage.py and database.py *)

IsLeap(y) == (y % 4 = 0) /\ ((y % 100 # 0) \/ (y % 400 = 0))

DaysInMonth(y, m) ==
    IF m \in {1, 3, 5, 7, 8, 10, 12} THEN 31
    ELSE IF m \in {4, 6, 9, 11} THEN 30
    ELSE IF IsLeap(y) THEN 29 ELSE 28

\* date.fromisoformat accepts the string iff it names a calendar date
ValidDate(s) ==
    /\ s \in Seq(Int) /\ Len(s) = 3
    /\ s[1] \in 1..9999
    /\ s[2] \in 1..12
    /\ s[3] \in 1..DaysInMonth(s[1], s[2])

RECURSIVE DaysBeforeMonth(_, _)
DaysBeforeMonth(y, m) ==
    IF m = 1 THEN 0 ELSE DaysBeforeMonth(y, m - 1) + DaysInMonth(y, m - 1)

\* date.toordinal(): days since 0001-01-01, proleptic Gregorian
toordinal(d) ==
    LET y == d[1] - 1
    IN  y * 365 + (y \div 4) - (y \div 100) + (y \div 400)
        + DaysBeforeMonth(d[1], d[2]) + d[3]

\* (a - b).days
days_diff(a, b) == toordinal(a) - toordinal(b)

\* a < b as ISO strings
DateStrLess(a, b) ==
    \/ a[1] < b[1]
    \/ a[1] = b[1] /\ a[2] < b[2]
    \/ a[1] = b[1] /\ a[2] = b[2] /\ a[3] < b[3]

----------------------------------------------------------------------------
(* models.py *)

Category(id, name) == [id |-> id, name |-> name]

Category_to_dict(c) == [id |-> c.id, name |-> c.name]

Category_from_dict(d) == Category(d.id, d.name)

Expense(id, category_id, amount, description, date) ==
    [id |-> id, category_id |-> category_id, amount |-> amount,
     description |-> description, date |-> date]

Expense_to_dict(e) ==
    [id |-> e.id, category_id |-> e.category_id, amount |-> e.amount,
     description |-> e.description, date |-> e.date]

\* variant: id and category_id are read from each other's key
Expense_from_dict_swapped(d) ==
    Expense(d.category_id, d.id, d.amount, d.description, d.date)

Expense_from_dict(d) ==
    Expense(d.id, d.category_id, d.amount, d.description, d.date)

----------------------------------------------------------------------------
(* storage.py: Storage, the JSON file *)

Missing == [kind |-> "missing"]
Corrupt == [kind |-> "corrupt"]

initial_categories ==
    << Category(1, "Eda"), Category(2, "Transport"),
       Category(3, "Razvlecheniya"), Category(4, "Kommunalnye"),
       Category(5, "Odezhda"), Category(6, "Zdorove") >>

JsonFile(data) ==
    [kind |-> "json", expenses |-> data.expenses,
     categories |-> data.categories, next_id |-> data.next_id]

\* the id counter seeded one too low
Storage_initial_data_zero ==
    [expenses |-> <<>>, categories |-> initial_categories, next_id |-> 0]

Storage_initial_data ==
    [expenses |-> <<>>, categories |-> initial_categories, next_id |-> 1]

\* _load_data: a missing or undecodable file yields the empty default
Storage_load_data(f) ==
    IF f.kind = "json"
    THEN [expenses |-> f.expenses, categories |-> f.categories,
          next_id |-> f.next_id]
    ELSE [expenses |-> <<>>, categories |-> <<>>, next_id |-> 1]

\* _save_data: the IOError (OSError) of a failed write is printed and swallowed.
\* fault = "none": the document replaces the file;
\* fault = "open": open(..., 'w') fails, the file is untouched;
\* fault = "dump": the file was truncated by open and the write stopped midway.
Storage_save_data(f, data, fault) ==
    IF fault = "none" THEN JsonFile(data)
    ELSE IF fault = "open" THEN f
    ELSE Corrupt

\* re-seeds also when the existing file holds no expense
Storage_ensure_data_file_exists_reseed(f) ==
    IF f.kind = "missing" \/ (f.kind = "json" /\ f.expenses = <<>>)
    THEN JsonFile([expenses |-> <<>>, categories |-> initial_categories, next_id |-> 1])
    ELSE f

Storage_ensure_data_file_exists(f) ==
    IF f.kind = "missing"
    THEN Storage_save_data(f, Storage_initial_data, "none")
    ELSE f

Storage_next_id(data) == data.next_id

\* replaces the expense list by the new record instead of appending to it
Storage_add_expense_overwrite(f, category_id, amount, description, expense_date, now, fault) ==
    LET data == Storage_load_data(f)
        d == IF expense_date = None THEN now ELSE expense_date
        expense == Expense(data.next_id, category_id, amount, description, d)
        data2 == [data EXCEPT !.expenses = <<Expense_to_dict(expense)>>,
                              !.next_id = @ + 1]
    IN  [file |-> JsonFile(data2), ret |-> TRUE, id |-> expense.id]

\* fault = "read": open(..., 'r') raises an OSError other than
\*   FileNotFoundError, which _load_data does not catch;
\* fault = "serialize": json.dump raises TypeError after open truncated the
\*   file, which _save_data does not catch.
\* Both reach the except at line 114. The other faults are _save_data's.
Storage_add_expense(f, category_id, amount, description, expense_date, now, fault) ==
    LET data == Storage_load_data(f)
        d == IF expense_date = None THEN now ELSE expense_date
        expense == Expense(Storage_next_id(data), category_id, amount, description, d)
        data2 == [data EXCEPT !.expenses = Append(@, Expense_to_dict(expense)),
                              !.next_id = @ + 1]
    IN  IF fault = "read" THEN [file |-> f, ret |-> FALSE, id |-> expense.id]
        ELSE IF fault = "serialize" THEN [file |-> Corrupt, ret |-> FALSE, id |-> expense.id]
        ELSE [file |-> Storage_save_data(f, data2, fault), ret |-> TRUE,
              id |-> expense.id]

Storage_period_match(period, expense_date, now) ==
    \/ period = "day" /\ expense_date = now
    \/ period = "week" /\ 0 <= days_diff(now, expense_date)
                       /\ days_diff(now, expense_date) <= 7
    \/ period = "month" /\ expense_date[2] = now[2] /\ expense_date[1] = now[1]
    \/ period = "year" /\ expense_date[1] = now[1]

\* the keys from_dict reads; a missing one raises KeyError
ExpenseKeys == {"id", "category_id", "amount", "description", "date"}
CategoryKeys == {"id", "name"}

Storage_get_expenses(f, period, now) ==
    LET data == Storage_load_data(f)
        expenses == [i \in DOMAIN data.expenses |-> Expense_from_dict(data.expenses[i])]
        Keep(e) == Storage_period_match(period, e.date, now)
    IN  IF \E i \in DOMAIN data.expenses : ~(ExpenseKeys \subseteq DOMAIN data.expenses[i])
        THEN <<>>           \* from_dict raised KeyError, caught at line 154
        ELSE IF period = "all" THEN expenses
        ELSE IF \E i \in DOMAIN expenses : ~ValidDate(expenses[i].date)
             THEN <<>>      \* date.fromisoformat raised, caught at line 154
        ELSE SelectSeq(expenses, Keep)

\* variant: an unreadable file is answered with the seeded categories
Storage_get_categories_seeded(f) ==
    LET data == Storage_load_data(f)
    IN  IF f.kind # "json" THEN initial_categories
        ELSE IF \E i \in DOMAIN data.categories : ~(CategoryKeys \subseteq DOMAIN data.categories[i])
        THEN <<>>
        ELSE [i \in DOMAIN data.categories |-> Category_from_dict(data.categories[i])]

Storage_get_categories(f) ==
    LET data == Storage_load_data(f)
    IN  IF \E i \in DOMAIN data.categories : ~(CategoryKeys \subseteq DOMAIN data.categories[i])
        THEN <<>>           \* from_dict raised KeyError, caught at line 167
        ELSE [i \in DOMAIN data.categories |-> Category_from_dict(data.categories[i])]

\* reports the deletion without saving the shortened list
Storage_delete_expense_unsaved(f, expense_id, fault) ==
    LET data == Storage_load_data(f)
    IN  [file |-> f, ret |-> \E i \in DOMAIN data.expenses : data.expenses[i].id = expense_id]

\* variant: the document written back holds only the expenses and the counter
Storage_delete_expense_drops_categories(f, expense_id, fault) ==
    LET data == Storage_load_data(f)
        Other(exp) == exp.id # expense_id
        kept == SelectSeq(data.expenses, Other)
    IN  IF fault = "read" THEN [file |-> f, ret |-> FALSE]
        ELSE IF Len(kept) < Len(data.expenses)
        THEN [file |-> Storage_save_data(f, [expenses |-> kept, categories |-> <<>>,
                                             next_id |-> data.next_id], fault),
              ret |-> TRUE]
        ELSE [file |-> f, ret |-> FALSE]

Storage_delete_expense(f, expense_id, fault) ==
    LET data == Storage_load_data(f)
        Other(exp) == exp.id # expense_id
        kept == SelectSeq(data.expenses, Other)
    IN  IF fault = "read" THEN [file |-> f, ret |-> FALSE]
        ELSE IF Len(kept) < Len(data.expenses)
        THEN [file |-> Storage_save_data(f, [data EXCEPT !.expenses = kept], fault),
              ret |-> TRUE]
        ELSE [file |-> f, ret |-> FALSE]

----------------------------------------------------------------------------
(* database.py: Database, the SQLite file *)

NoDatabase == [exists |-> FALSE, categories |-> {}, expenses |-> {}, seq |-> 0]

Database_initial_categories == Range(initial_categories)

\* _init_database: CREATE TABLE IF NOT EXISTS keeps existing rows; the six
\* categories are inserted only when the categories table is empty
Database_init_database(d) ==
    [d EXCEPT !.exists = TRUE,
              !.categories = IF Cardinality(d.categories) = 0
                             THEN Database_initial_categories
                             ELSE d.categories]

MaxRowid(rows) ==
    IF rows = {} THEN 0
    ELSE CHOOSE m \in {r.id : r \in rows} : \A r \in rows : r.id <= m

\* a plain INTEGER PRIMARY KEY: one more than the largest rowid now stored
Database_next_id_rowid(d) == MaxRowid(d.expenses) + 1

\* INTEGER PRIMARY KEY AUTOINCREMENT: one more than the largest rowid the
\* table has ever held (sqlite_sequence.seq)
Database_next_id(d) ==
    (IF d.seq > MaxRowid(d.expenses) THEN d.seq ELSE MaxRowid(d.expenses)) + 1

Database_add_expense(d, category_id, amount, description, expense_date, now) ==
    LET dt == IF expense_date = None THEN now ELSE expense_date
        id == Database_next_id(d)
        row == [id |-> id, category_id |-> category_id, amount |-> amount,
                description |-> description, date |-> dt]
    IN  [db |-> [d EXCEPT !.expenses = @ \cup {row}, !.seq = id],
         ret |-> TRUE, id |-> id]

\* strftime(fmt, e.date) is NULL for a string that is not a date
Database_where(period, row_date, now) ==
    CASE period = "all"   -> TRUE
      [] period = "day"   -> row_date = now
      [] period = "month" -> ValidDate(row_date) /\ row_date[1] = now[1]
                                                 /\ row_date[2] = now[2]
      [] period = "year"  -> ValidDate(row_date) /\ row_date[1] = now[1]
      [] OTHER            -> TRUE

\* ORDER BY e.date DESC, e.id DESC
RowBefore(a, b) ==
    \/ DateStrLess(b.date, a.date)
    \/ a.date = b.date /\ a.id > b.id

RECURSIVE OrderByDateDescIdDesc(_)
OrderByDateDescIdDesc(rows) ==
    IF rows = {} THEN <<>>
    ELSE LET first == CHOOSE r \in rows : \A o \in rows \ {r} : RowBefore(r, o)
         IN  <<first>> \o OrderByDateDescIdDesc(rows \ {first})

\* period "week": today.replace(day=today.day - 7) raises ValueError when
\* today.day <= 7; otherwise today minus that date is a timedelta, which has
\* no isoformat (AttributeError). Either way the except at line 167 returns [].
Database_week_ago(now) ==
    IF now[3] - 7 < 1 THEN "ValueError" ELSE "AttributeError"

Database_get_expenses(d, period, now) ==
    IF period = "week" /\ Database_week_ago(now) \in {"ValueError", "AttributeError"}
    THEN <<>>
    ELSE LET rows == {r \in d.expenses : Database_where(period, r.date, now)}
             sorted == OrderByDateDescIdDesc(rows)
         IN  [i \in DOMAIN sorted |->
                 Expense(sorted[i].id, sorted[i].category_id, sorted[i].amount,
                         sorted[i].description, sorted[i].date)]

\* SELECT id, name FROM categories ORDER BY id
RECURSIVE OrderById(_)
OrderById(rows) ==
    IF rows = {} THEN <<>>
    ELSE LET first == CHOOSE r \in rows : \A o \in rows : r.id <= o.id
         IN  <<Category(first.id, first.name)>> \o OrderById(rows \ {first})

Database_get_categories(d) == OrderById(d.categories)

Database_delete_expense(d, expense_id) ==
    LET hit == {r \in d.expenses : r.id = expense_id}
    IN  [db |-> [d EXCEPT !.expenses = @ \ hit],
         ret |-> Cardinality(hit) > 0]

\* the period condition appended to the LEFT JOIN's ON clause: only "month"
\* and "year" add one; "day", "week" and "all" join every expense
Database_stats_on(period, row_date, now) ==
    CASE period = "month" -> ValidDate(row_date) /\ row_date[1] = now[1]
                                                 /\ row_date[2] = now[2]
      [] period = "year"  -> ValidDate(row_date) /\ row_date[1] = now[1]
      [] OTHER            -> TRUE

\* HAVING total_amount > 0
Database_stats_having(total_amount) == total_amount > 0

\* the rows of get_category_stats, before ORDER BY total_amount DESC
Database_get_category_stats(d, period, now) ==
    LET joined(c) == {e \in d.expenses :
                        e.category_id = c.id /\ Database_stats_on(period, e.date, now)}
        grouped == {[category_id |-> c.id, category_name |-> c.name,
                     transaction_count |-> Cardinality(joined(c)),
                     total_amount |-> SumAmounts(joined(c))] : c \in d.categories}
    IN  {g \in grouped : Database_stats_having(g.total_amount)}

\* the orders ORDER BY total_amount DESC allows (ties in any order)
StatsOrders(rows) ==
    {s \in [1..Cardinality(rows) -> rows] :
        /\ \A i, j \in DOMAIN s : i < j => s[i] # s[j]
        /\ \A i, j \in DOMAIN s : i < j => s[i].total_amount >= s[j].total_amount}

----------------------------------------------------------------------------
(* The state machine *)

\* before: the persisted data (file or db) as it was when the call began
Call(op, args, ret, before) ==
    [op |-> op, args |-> args, ret |-> ret, before |-> before]

Init ==
    /\ store = "none"
    /\ file = Missing
    /\ db = NoDatabase
    /\ today \in Todays
    /\ call = Call("start", <<>>, None, None)
    /\ assigned = <<>>

\* Storage(data_file)
StorageInit ==
    /\ store \in {"none", "json"}
    /\ store' = "json"
    /\ file' = Storage_ensure_data_file_exists(file)
    /\ call' = Call("Storage", <<file.kind>>, None, file)
    /\ UNCHANGED <<db, today, assigned>>

\* Database(db_path)
DatabaseInit ==
    /\ store \in {"none", "sqlite"}
    /\ store' = "sqlite"
    /\ db' = Database_init_database(db)
    /\ call' = Call("Database", <<db.exists>>, None, db)
    /\ UNCHANGED <<file, today, assigned>>

StorageAddExpenseWith(fault) ==
    /\ store = "json"
    /\ Len(assigned) < MaxAdds
    /\ LET before == file
       IN  \E c \in CategoryIds, a \in Amounts, t \in Descriptions, d \in Dates \cup {None} :
              LET r == Storage_add_expense(file, c, a, t, d, today, fault)
              IN  /\ file' = r.file
                  /\ call' = Call("add_expense", <<c, a, t, d, fault>>, r.ret, before)
                  /\ assigned' = IF r.ret THEN Append(assigned, r.id) ELSE assigned
    /\ UNCHANGED <<store, db, today>>

StorageAddExpense == StorageAddExpenseWith("none")

StorageGetExpenses ==
    /\ store = "json"
    /\ \E p \in Periods :
          call' = Call("get_expenses", <<p>>, Storage_get_expenses(file, p, today), file)
    /\ UNCHANGED <<store, file, db, today, assigned>>

StorageGetCategories ==
    /\ store = "json"
    /\ call' = Call("get_categories", <<>>, Storage_get_categories(file), file)
    /\ UNCHANGED <<store, file, db, today, assigned>>

StorageDeleteExpenseWith(fault) ==
    /\ store = "json"
    /\ LET before == file
       IN  \E i \in DeleteIds :
              LET r == Storage_delete_expense(file, i, fault)
              IN  /\ file' = r.file
                  /\ call' = Call("delete_expense", <<i, fault>>, r.ret, before)
    /\ UNCHANGED <<store, db, today, assigned>>

StorageDeleteExpense == StorageDeleteExpenseWith("none")

DatabaseAddExpense ==
    /\ store = "sqlite"
    /\ Len(assigned) < MaxAdds
    /\ LET before == db
       IN  \E c \in CategoryIds, a \in Amounts, t \in Descriptions, d \in Dates \cup {None} :
              LET r == Database_add_expense(db, c, a, t, d, today)
              IN  /\ db' = r.db
                  /\ call' = Call("add_expense", <<c, a, t, d, "none">>, r.ret, before)
                  /\ assigned' = Append(assigned, r.id)
    /\ UNCHANGED <<store, file, today>>

DatabaseGetExpenses ==
    /\ store = "sqlite"
    /\ \E p \in Periods :
          call' = Call("get_expenses", <<p>>, Database_get_expenses(db, p, today), None)
    /\ UNCHANGED <<store, file, db, today, assigned>>

DatabaseGetCategories ==
    /\ store = "sqlite"
    /\ call' = Call("get_categories", <<>>, Database_get_categories(db), None)
    /\ UNCHANGED <<store, file, db, today, assigned>>

DatabaseDeleteExpense ==
    /\ store = "sqlite"
    /\ LET before == db
       IN  \E i \in DeleteIds :
              LET r == Database_delete_expense(db, i)
              IN  /\ db' = r.db
                  /\ call' = Call("delete_expense", <<i, "none">>, r.ret, before)
    /\ UNCHANGED <<store, file, today, assigned>>

DatabaseGetCategoryStats ==
    /\ store = "sqlite"
    /\ \E p \in Periods :
          \E s \in StatsOrders(Database_get_category_stats(db, p, today)) :
              call' = Call("get_category_stats", <<p>>, s, None)
    /\ UNCHANGED <<store, file, db, today, assigned>>

Next ==
    \/ StorageInit
    \/ DatabaseInit
    \/ StorageAddExpense
    \/ StorageGetExpenses
    \/ StorageGetCategories
    \/ StorageDeleteExpense
    \/ DatabaseAddExpense
    \/ DatabaseGetExpenses
    \/ DatabaseGetCategories
    \/ DatabaseDeleteExpense
    \/ DatabaseGetCategoryStats

\* every read and write of the file system succeeds
Spec == Init /\ [][Next]_vars

(* The same program on a file system whose reads and writes can fail *)

AddFaults == {"open", "dump", "serialize", "read"}
DeleteFaults == {"open", "dump", "read"}

StorageAddExpenseFault == \E fault \in AddFaults : StorageAddExpenseWith(fault)

StorageDeleteExpenseFault == \E fault \in DeleteFaults : StorageDeleteExpenseWith(fault)

NextFault ==
    \/ Next
    \/ StorageAddExpenseFault
    \/ StorageDeleteExpenseFault

SpecFault == Init /\ [][NextFault]_vars

----------------------------------------------------------------------------
(* What a caller of the store in use observes *)

get_expenses(period) ==
    IF store = "json" THEN Storage_get_expenses(file, period, today)
    ELSE Database_get_expenses(db, period, today)

get_categories ==
    IF store = "json" THEN Storage_get_categories(file)
    ELSE Database_get_categories(db)

next_id ==
    IF store = "json" THEN Storage_next_id(Storage_load_data(file))
    ELSE Database_next_id(db)

observed ==
    [expenses |-> get_expenses("all"), categories |-> get_categories,
     next_id |-> next_id]

\* the same observations on the persisted data the last call started from
observed_before ==
    IF store = "json"
    THEN [expenses |-> Storage_get_expenses(call.before, "all", today),
          categories |-> Storage_get_categories(call.before),
          next_id |-> Storage_next_id(Storage_load_data(call.before))]
    ELSE [expenses |-> Database_get_expenses(call.before, "all", today),
          categories |-> Database_get_categories(call.before),
          next_id |-> Database_next_id(call.before)]

NoDuplicates(s) == \A i, j \in DOMAIN s : i # j => s[i] # s[j]

----------------------------------------------------------------------------
(* C1 .. C5: the write path on a reliable file system *)

\* C1: a successful add_expense(category_id, amount, description, date) makes
\* get_expenses("all") return the previous records, each unchanged, plus
\* exactly one new record that carries the arguments (the date defaulting to
\* today) and the id that next_id had before the call.
C1_AddAppendsExactlyOne ==
    (call.op = "add_expense" /\ call.ret = TRUE) =>
        LET before == observed_before.expenses
            after  == get_expenses("all")
            a      == call.args
            new    == Expense(observed_before.next_id, a[1], a[2], a[3],
                              IF a[4] = None THEN today ELSE a[4])
        IN  /\ Len(after) = Len(before) + 1
            /\ NoDuplicates(after)
            /\ Range(after) = Range(before) \cup {new}
            /\ new \notin Range(before)

\* an add with an explicit date has just succeeded on a store that already
\* held a record
C1_Witness ==
    /\ call.op = "add_expense"
    /\ call.ret = TRUE
    /\ call.args[4] # None
    /\ Len(observed_before.expenses) = 1
    /\ Len(get_expenses("all")) = 2

\* C2: delete_expense(id) returns true iff a record with that id was stored;
\* after true the stored expenses are the previous ones without that id and no
\* period lists it; after false expenses, categories and next_id are unchanged.
C2_DeleteExactlyThatId ==
    (call.op = "delete_expense") =>
        LET before == observed_before.expenses
            after  == get_expenses("all")
            i      == call.args[1]
        IN  /\ call.ret = (\E e \in Range(before) : e.id = i)
            /\ call.ret =>
                  /\ Range(after) = {e \in Range(before) : e.id # i}
                  /\ Len(after) = Len(before) - 1
                  /\ \A p \in Periods : \A e \in Range(get_expenses(p)) : e.id # i
            /\ ~call.ret => observed = observed_before

\* a delete has just returned true and left another record in the store
C2_Witness ==
    /\ call.op = "delete_expense"
    /\ call.ret = TRUE
    /\ Len(observed_before.expenses) = 2
    /\ Len(get_expenses("all")) = 1

SixNames ==
    <<"Eda", "Transport", "Razvlecheniya", "Kommunalnye", "Odezhda", "Zdorove">>

\* C3: constructing either store on a location that does not exist yet leaves
\* exactly the six categories, ids 1..6 with the fixed names in that order, no
\* expense, and for the JSON store next_id = 1.
C3_FreshInitSeedsSix ==
    LET fresh == \/ call.op = "Storage" /\ call.args[1] = "missing"
                 \/ call.op = "Database" /\ call.args[1] = FALSE
    IN  fresh =>
          /\ Len(get_categories) = 6
          /\ \A i \in 1..6 : /\ get_categories[i].id = i
                             /\ get_categories[i].name = SixNames[i]
          /\ get_expenses("all") = <<>>
          /\ store = "json" => (file.kind = "json" /\ file.next_id = 1)
          /\ store = "sqlite" => db.exists

\* the SQLite store has just been created
C3_Witness ==
    /\ call.op = "Database"
    /\ call.args[1] = FALSE
    /\ store = "sqlite"
    /\ Len(get_categories) = 6

\* C4: constructing a store on a location that already holds data leaves the
\* persisted expenses, categories and id counter as they were.
C4_InitIdempotent ==
    LET again == \/ call.op = "Storage" /\ call.args[1] # "missing"
                 \/ call.op = "Database" /\ call.args[1] = TRUE
    IN  again => observed = observed_before

\* the JSON store has just been constructed again on a file whose expense
\* list was emptied by a delete
C4_Witness ==
    /\ call.op = "Storage"
    /\ call.args[1] = "json"
    /\ observed_before.next_id = 2
    /\ file.kind = "json"
    /\ file.expenses = <<>>

\* C5: ids are handed out in strictly increasing order and never again, so no
\* two stored expenses share an id and every stored id is below next_id.
C5_IdsMonotonic ==
    /\ \A i, j \in DOMAIN assigned : i < j => assigned[i] < assigned[j]
    /\ LET all == get_expenses("all")
       IN  /\ \A i, j \in DOMAIN all : i # j => all[i].id # all[j].id
           /\ \A i \in DOMAIN all : all[i].id < next_id

\* the first record was deleted before the second was added
C5_Witness ==
    /\ Len(assigned) = 2
    /\ Len(get_expenses("all")) = 1
    /\ get_expenses("all")[1].id = 2

----------------------------------------------------------------------------
(* C6: the write path when the file system fails *)

\* C6: add_expense returns false whenever reading, serialising or writing the
\* persisted data fails during the call; it returns true only if the new
\* record is in the persisted state after the call.
C6_AddReportsFailure ==
    (call.op = "add_expense") =>
        LET a   == call.args
            new == Expense(observed_before.next_id, a[1], a[2], a[3],
                           IF a[4] = None THEN today ELSE a[4])
        IN  /\ a[5] # "none" => call.ret = FALSE
            /\ (store = "json" /\ call.before.kind # "json") => call.ret = FALSE
            /\ call.ret = TRUE => new \in Range(get_expenses("all"))

----------------------------------------------------------------------------
(* C7 .. C10: the read path *)

\* C7: for every period, get_expenses lists newer dates first and, within one
\* date, higher ids first, on the JSON store as on the SQLite store.
C7_ListedNewestFirst ==
    (call.op = "get_expenses") =>
        \A i, j \in DOMAIN call.ret :
            i < j =>
                \/ toordinal(call.ret[i].date) > toordinal(call.ret[j].date)
                \/ /\ call.ret[i].date = call.ret[j].date
                   /\ call.ret[i].id > call.ret[j].id

\* the period predicates as the store's contract states them
InPeriod(period, d, now) ==
    CASE period = "day"   -> d = now
      [] period = "week"  -> toordinal(now) - toordinal(d) \in 0..7
      [] period = "month" -> d[1] = now[1] /\ d[2] = now[2]
      [] period = "year"  -> d[1] = now[1]
      [] period = "all"   -> TRUE

\* C8: get_expenses(period) returns exactly the stored expenses whose date
\* satisfies the period's predicate relative to today, none omitted and none
\* added.
C8_PeriodFilterExact ==
    (call.op = "get_expenses") =>
        /\ NoDuplicates(call.ret)
        /\ Range(call.ret) =
              {e \in Range(get_expenses("all")) : InPeriod(call.args[1], e.date, today)}

\* C9: every entry of get_category_stats(period) counts and sums exactly the
\* expenses of its category that get_expenses(period) returns.
C9_StatsMatchPeriod ==
    (call.op = "get_category_stats") =>
        \A k \in DOMAIN call.ret :
            LET row  == call.ret[k]
                mine == {e \in Range(Database_get_expenses(db, call.args[1], today)) :
                            e.category_id = row.category_id}
            IN  /\ row.transaction_count = Cardinality(mine)
                /\ row.total_amount = SumAmounts(mine)

\* C10: a category is listed by get_category_stats(period) iff at least one
\* expense matching the period belongs to it, whatever the sign of its total.
C10_ListedIffHasExpense ==
    (call.op = "get_category_stats") =>
        {call.ret[k].category_id : k \in DOMAIN call.ret} =
            {c.id : c \in {c \in Range(Database_get_categories(db)) :
                \E e \in Range(Database_get_expenses(db, "all", today)) :
                    /\ e.category_id = c.id
                    /\ InPeriod(call.args[1], e.date, today)}}

----------------------------------------------------------------------------
(* report.py: ReportGenerator *)

RECURSIVE SumSeqAmounts(_)
SumSeqAmounts(s) ==
    IF s = <<>> THEN 0 ELSE Head(s).amount + SumSeqAmounts(Tail(s))

\* the dict {} returned by the except branch
EmptyReport == <<>>

\* str(v), as csv.writer writes a number
Str(v) == [str |-> v]

\* output_file.endswith('.' + ext); a path is the sequence of its
\* dot-separated parts, <<"report", "csv">> for "report.csv"
endswith(path, ext) == Len(path) >= 2 /\ path[Len(path)] = ext

\* category_totals[cat.id]['amount'] and category_counts[cat.id] after the
\* two loops; an expense whose category_id is no key is skipped
ReportGenerator_category_total(expenses, cat) ==
    LET Mine(e) == e.category_id = cat.id
    IN  SumSeqAmounts(SelectSeq(expenses, Mine))

ReportGenerator_category_count(expenses, cat) ==
    LET Mine(e) == e.category_id = cat.id
    IN  Len(SelectSeq(expenses, Mine))

\* if totals['amount'] > 0
ReportGenerator_listed(amount) == amount > 0

ReportGenerator_entry(expenses, cat) ==
    [category_name |-> cat.name,
     amount |-> ReportGenerator_category_total(expenses, cat),
     transaction_count |-> ReportGenerator_category_count(expenses, cat)]

RECURSIVE ReportGenerator_total(_, _)
ReportGenerator_total(expenses, categories) ==
    IF categories = <<>> THEN 0
    ELSE ReportGenerator_category_total(expenses, Head(categories))
         + ReportGenerator_total(expenses, Tail(categories))

ReportGenerator_build(expenses, categories, period, now) ==
    LET Listed(cat) ==
            ReportGenerator_listed(ReportGenerator_category_total(expenses, cat))
        shown == SelectSeq(categories, Listed)
    IN  [period |-> period,
         generated_at |-> now,
         total_expenses |-> ReportGenerator_total(expenses, categories),
         categories |-> [i \in DOMAIN shown |-> ReportGenerator_entry(expenses, shown[i])]]

csv_header == <<"Kategoriya", "Summa rashodov", "Kolichestvo operacij">>

\* variant: the blank separator row before the total is not written
ReportGenerator_csv_rows_no_blank(report) ==
    <<csv_header>>
    \o [i \in DOMAIN report.categories |->
           <<report.categories[i].category_name,
             Str(report.categories[i].amount),
             Str(report.categories[i].transaction_count)>>]
    \o << <<"Itogo rashody:", Str(report.total_expenses)>> >>

ReportGenerator_csv_rows(report) ==
    <<csv_header>>
    \o [i \in DOMAIN report.categories |->
           <<report.categories[i].category_name,
             Str(report.categories[i].amount),
             Str(report.categories[i].transaction_count)>>]
    \o << <<>>, <<"Itogo rashody:", Str(report.total_expenses)>> >>

\* variant: an else branch dumps JSON whatever the extension
ReportGenerator_save_report_to_file_any_extension(report, output_file, fault) ==
    IF endswith(output_file, "csv")
    THEN [written |-> IF fault = "save" THEN None
                      ELSE [path |-> output_file,
                            rows |-> ReportGenerator_csv_rows(report)],
          raised |-> FALSE]
    ELSE [written |-> IF fault = "save" THEN None
                      ELSE [path |-> output_file, json |-> report],
          raised |-> FALSE]

\* variant: no try/except around the writes, open's exception leaves the method
ReportGenerator_save_report_to_file_unguarded(report, output_file, fault) ==
    IF endswith(output_file, "json")
    THEN [written |-> IF fault = "save" THEN None
                      ELSE [path |-> output_file, json |-> report],
          raised |-> fault = "save"]
    ELSE IF endswith(output_file, "csv")
    THEN [written |-> IF fault = "save" THEN None
                      ELSE [path |-> output_file,
                            rows |-> ReportGenerator_csv_rows(report)],
          raised |-> fault = "save"]
    ELSE [written |-> None, raised |-> FALSE]

\* _save_report_to_file: what the call writes to output_file (None: no file is
\* opened) and whether an exception leaves the method.
\* fault = "save": open(output_file, 'w') raises; the except at line 115
\* prints it.
ReportGenerator_save_report_to_file(report, output_file, fault) ==
    IF endswith(output_file, "json")
    THEN [written |-> IF fault = "save" THEN None
                      ELSE [path |-> output_file, json |-> report],
          raised |-> FALSE]
    ELSE IF endswith(output_file, "csv")
    THEN [written |-> IF fault = "save" THEN None
                      ELSE [path |-> output_file,
                            rows |-> ReportGenerator_csv_rows(report)],
          raised |-> FALSE]
    ELSE [written |-> None, raised |-> FALSE]

\* generate_category_report on the lists the store returned.
\* fault = "aggregate": the loop at lines 54-58 raises (an amount that is not
\* a number); the except at line 79 returns {}.
ReportGenerator_generate_category_report(expenses, categories, period, output_file, now, fault) ==
    LET report == ReportGenerator_build(expenses, categories, period, now)
        saved  == IF output_file # None /\ output_file # <<"">>
                  THEN ReportGenerator_save_report_to_file(report, output_file, fault)
                  ELSE [written |-> None, raised |-> FALSE]
    IN  IF fault = "aggregate"
        THEN [report |-> EmptyReport, written |-> None, raised |-> FALSE]
        ELSE IF saved.raised
        THEN [report |-> EmptyReport, written |-> saved.written, raised |-> FALSE]
        ELSE [report |-> report, written |-> saved.written, raised |-> FALSE]

----------------------------------------------------------------------------
(* Reports over the JSON store (command.py builds ReportGenerator(Storage())) *)

\* a category id that get_categories never returns
UnknownCategoryIds == {7}
ReportDates == {None, <<2023, 3, 5>>}
OutputFiles == {None, <<"report", "json">>, <<"report", "csv">>, <<"report", "txt">>}

\* Storage.add_expense with the inputs drawn from the given sets
StorageAddExpenseOf(cats, amounts, dates, fault) ==
    /\ store = "json"
    /\ Len(assigned) < MaxAdds
    /\ LET before == file
       IN  \E c \in cats, a \in amounts, t \in Descriptions, d \in dates :
              LET r == Storage_add_expense(file, c, a, t, d, today, fault)
              IN  /\ file' = r.file
                  /\ call' = Call("add_expense", <<c, a, t, d, fault>>, r.ret, before)
                  /\ assigned' = IF r.ret THEN Append(assigned, r.id) ELSE assigned
    /\ UNCHANGED <<store, db, today>>

ReportAddExpense ==
    StorageAddExpenseOf(CategoryIds, Amounts, ReportDates, "none")

\* Storage.add_expense accepts a category_id that no category has
ReportAddExpenseUnknownCategory ==
    StorageAddExpenseOf(UnknownCategoryIds, {1}, {None}, "none")

\* ReportGenerator(storage).generate_category_report(period, output_file)
GenerateCategoryReportOf(outputs, fault) ==
    /\ store = "json"
    /\ \E p \in Periods, o \in outputs :
          LET r == ReportGenerator_generate_category_report(
                       Storage_get_expenses(file, p, today),
                       Storage_get_categories(file), p, o, today, fault)
          IN  call' = Call("generate_category_report", <<p, o, fault>>, r, None)
    /\ UNCHANGED <<store, file, db, today, assigned>>

GenerateCategoryReport == GenerateCategoryReportOf(OutputFiles, "none")

NextReport ==
    \/ StorageInit
    \/ ReportAddExpense
    \/ ReportAddExpenseUnknownCategory
    \/ GenerateCategoryReport

SpecReport == Init /\ [][NextReport]_vars

----------------------------------------------------------------------------
(* Claims about reports *)

IsReportCall == call.op = "generate_category_report"

\* the sum of the amounts, among the listed expenses, of one category
PeriodTotal(period, category_id) ==
    SumAmounts({e \in Range(get_expenses(period)) : e.category_id = category_id})

PeriodCount(period, category_id) ==
    Cardinality({e \in Range(get_expenses(period)) : e.category_id = category_id})

\* C11: the total_expenses of a generated report equals the sum of the amounts
\* of the expenses get_expenses returns for the report's period (all stored
\* expenses for "all"), whatever their category_id.
C11_TotalIsSumOfExpenses ==
    IsReportCall =>
        call.ret.report.total_expenses = SumSeqAmounts(get_expenses(call.args[1]))

\* C12: every entry of a report's categories list has the fields
\* category_name, total_amount and transaction_count, total_amount being the
\* sum and transaction_count the number of the category's expenses in the
\* period.
C12_EntryFields ==
    IsReportCall =>
        \A i \in DOMAIN call.ret.report.categories :
            LET entry == call.ret.report.categories[i]
            IN  /\ DOMAIN entry = {"category_name", "total_amount", "transaction_count"}
                /\ \E cat \in Range(get_categories) :
                      /\ entry.category_name = cat.name
                      /\ entry.total_amount = PeriodTotal(call.args[1], cat.id)
                      /\ entry.transaction_count = PeriodCount(call.args[1], cat.id)

\* C13: a report lists a category if and only if the category's total for the
\* period is nonzero, positive or negative.
C13_ListedIffNonzero ==
    IsReportCall =>
        {call.ret.report.categories[i].category_name :
             i \in DOMAIN call.ret.report.categories}
        = {cat.name : cat \in {c \in Range(get_categories) :
                                   PeriodTotal(call.args[1], c.id) # 0}}

\* C15: a report saved to a path ending in .csv is written as a header row of
\* three columns, one row (name, amount, count) per entry of the categories
\* list in the list's order, an empty row, and a last row whose second field
\* is the report's total_expenses.
C15_CsvRows ==
    (IsReportCall /\ endswith(call.args[2], "csv")) =>
        LET report == call.ret.report
            w == call.ret.written
            n == Len(report.categories)
        IN  /\ w # None
            /\ DOMAIN w = {"path", "rows"}
            /\ w.path = call.args[2]
            /\ Len(w.rows) = n + 3
            /\ Len(w.rows[1]) = 3
            /\ \A i \in 1..n :
                  w.rows[i + 1] = <<report.categories[i].category_name,
                                    Str(report.categories[i].amount),
                                    Str(report.categories[i].transaction_count)>>
            /\ w.rows[n + 2] = <<>>
            /\ Len(w.rows[n + 3]) = 2
            /\ w.rows[n + 3][2] = Str(report.total_expenses)

C15_Witness ==
    /\ IsReportCall
    /\ endswith(call.args[2], "csv")
    /\ Len(call.ret.report.categories) = 2

\* C16: the extension of the destination alone chooses what is written: the
\* report object for .json, the table for .csv, nothing for any other
\* extension or without a destination; the returned report is the one
\* returned without a destination.
C16_FormatByExtension ==
    IsReportCall =>
        LET o == call.args[2]
            w == call.ret.written
            plain == ReportGenerator_generate_category_report(
                         get_expenses(call.args[1]), get_categories,
                         call.args[1], None, today, "none")
        IN  /\ call.ret.report = plain.report
            /\ plain.written = None
            /\ (o # None /\ endswith(o, "json"))
                   => w = [path |-> o, json |-> call.ret.report]
            /\ (o # None /\ endswith(o, "csv"))
                   => (w # None /\ DOMAIN w = {"path", "rows"} /\ w.path = o)
            /\ (o = None \/ ~(endswith(o, "json") \/ endswith(o, "csv")))
                   => w = None

C16_Witness ==
    /\ IsReportCall
    /\ call.args[2] = <<"report", "txt">>
    /\ call.ret.written = None
    /\ call.ret.report.categories # <<>>

----------------------------------------------------------------------------
(* Reports when something fails *)

\* open(output_file, 'w') raises
GenerateCategoryReportSaveFault ==
    GenerateCategoryReportOf(OutputFiles \ {None}, "save")

\* the aggregation loop raises
GenerateCategoryReportAggregateFault ==
    GenerateCategoryReportOf({None, <<"report", "csv">>}, "aggregate")

\* the data file is removed behind the program's back
DataFileLost ==
    /\ store = "json"
    /\ file.kind = "json"
    /\ file' = Missing
    /\ call' = Call("environment", <<"lost">>, None, file)
    /\ UNCHANGED <<store, db, today, assigned>>

\* the data file no longer holds JSON
DataFileGarbled ==
    /\ store = "json"
    /\ file.kind = "json"
    /\ file' = Corrupt
    /\ call' = Call("environment", <<"garbled">>, None, file)
    /\ UNCHANGED <<store, db, today, assigned>>

NextReportFault ==
    \/ StorageInit
    \/ ReportAddExpense
    \/ GenerateCategoryReport
    \/ GenerateCategoryReportSaveFault
    \/ GenerateCategoryReportAggregateFault
    \/ DataFileGarbled

SpecReportFault == Init /\ [][NextReportFault]_vars

----------------------------------------------------------------------------
(* command.py: CommandHandler *)

\* args.category
CategoryNames == {"Eda", "eda", "TRANSPORT", "Kino"}

\* str.lower() on the strings that occur
lower(name) ==
    CASE name \in {"Eda", "eda"} -> "eda"
      [] name \in {"Transport", "TRANSPORT"} -> "transport"
      [] name = "Razvlecheniya" -> "razvlecheniya"
      [] name = "Kommunalnye" -> "kommunalnye"
      [] name = "Odezhda" -> "odezhda"
      [] name = "Zdorove" -> "zdorove"
      [] name = "Kino" -> "kino"

\* variant: the names are compared as they are written
CommandHandler_category_id_exact(categories, name) ==
    LET Same(c) == c.name = name
        found == SelectSeq(categories, Same)
    IN  IF found = <<>> THEN <<>> ELSE <<Head(found).id>>

\* the loop of handle_add: <<id>> for the first category whose lowered name is
\* the lowered argument, <<>> (None) when there is none
CommandHandler_category_id(categories, name) ==
    LET Same(c) == lower(c.name) = lower(name)
        found == SelectSeq(categories, Same)
    IN  IF found = <<>> THEN <<>> ELSE <<Head(found).id>>

\* variant: an unmatched name does not return, the expense is stored under an
\* id that no category has
CommandHandler_handle_add_unchecked(f, category, amount, description, now, fault) ==
    LET found == CommandHandler_category_id(Storage_get_categories(f), category)
        category_id == IF found = <<>> THEN <<CHOOSE u \in UnknownCategoryIds : TRUE>>
                       ELSE found
        r == Storage_add_expense(f, category_id[1], amount, description,
                                 None, now, fault)
    IN  [file |-> r.file, called |-> TRUE, category_id |-> category_id,
         success |-> r.ret, id |-> r.id, raised |-> FALSE]

\* handle_add(args): called tells whether Storage.add_expense was called
CommandHandler_handle_add(f, category, amount, description, now, fault) ==
    LET category_id == CommandHandler_category_id(Storage_get_categories(f), category)
    IN  IF category_id = None
        THEN [file |-> f, called |-> FALSE, category_id |-> None,
              success |-> FALSE, id |-> 0, raised |-> FALSE]
        ELSE LET r == Storage_add_expense(f, category_id[1], amount, description,
                                          None, now, fault)
             IN  [file |-> r.file, called |-> TRUE, category_id |-> category_id,
                  success |-> r.ret, id |-> r.id, raised |-> FALSE]

\* handle_delete(args)
CommandHandler_handle_delete(f, expense_id, fault) ==
    Storage_delete_expense(f, expense_id, fault)

HandleAdd ==
    /\ store = "json"
    /\ Len(assigned) < MaxAdds
    /\ \E n \in CategoryNames, a \in Amounts, t \in Descriptions :
          LET r == CommandHandler_handle_add(file, n, a, t, today, "none")
          IN  /\ file' = r.file
              /\ call' = Call("handle_add", <<n, a, t>>,
                              [called |-> r.called, category_id |-> r.category_id,
                               raised |-> r.raised], file)
              /\ assigned' = IF r.success THEN Append(assigned, r.id) ELSE assigned
    /\ UNCHANGED <<store, db, today>>

HandleDelete ==
    /\ store = "json"
    /\ \E i \in DeleteIds :
          LET r == CommandHandler_handle_delete(file, i, "none")
          IN  /\ file' = r.file
              /\ call' = Call("handle_delete", <<i>>, r.ret, file)
    /\ UNCHANGED <<store, db, today, assigned>>

NextCommand ==
    \/ StorageInit
    \/ HandleAdd
    \/ HandleDelete

SpecCommand == Init /\ [][NextCommand]_vars

\* C17: handle_add finds the category id by comparing names without regard to
\* case; without a match add_expense is not called and the persisted data is
\* unchanged, with a match exactly one expense is added and it carries the id
\* of the matching category; nothing is raised.
C17_AddResolvesCategory ==
    call.op = "handle_add" =>
        LET stored == Range(Storage_get_categories(call.before))
            matching == {c \in stored : lower(c.name) = lower(call.args[1])}
            was == Storage_get_expenses(call.before, "all", today)
            now == Storage_get_expenses(file, "all", today)
        IN  /\ ~call.ret.raised
            /\ matching = {} =>
                  /\ ~call.ret.called
                  /\ file = call.before
            /\ matching # {} =>
                  /\ call.ret.called
                  /\ Len(now) = Len(was) + 1
                  /\ SubSeq(now, 1, Len(was)) = was
                  /\ now[Len(now)].category_id \in {c.id : c \in matching}
                  /\ now[Len(now)].amount = call.args[2]
                  /\ now[Len(now)].description = call.args[3]

C17_Witness ==
    /\ call.op = "handle_add"
    /\ call.args[1] = "TRANSPORT"
    /\ call.ret.called
    /\ Len(Storage_get_expenses(file, "all", today)) = 2
    /\ Storage_get_expenses(file, "all", today)[2].category_id = 2

----------------------------------------------------------------------------
(* models.py: conversions between records and dictionaries *)

Categories == [id : CategoryIds \cup UnknownCategoryIds, name : CategoryNames]

Expenses ==
    [id : DeleteIds, category_id : CategoryIds \cup UnknownCategoryIds,
     amount : Amounts, description : Descriptions, date : Dates]

\* Category.from_dict(c.to_dict())
CategoryThroughDict ==
    /\ \E c \in Categories :
          call' = Call("Category.from_dict(to_dict)", <<c>>,
                       Category_from_dict(Category_to_dict(c)), None)
    /\ UNCHANGED <<store, file, db, today, assigned>>

\* Category.from_dict(d).to_dict()
CategoryDictThroughRecord ==
    /\ \E d \in Categories :
          call' = Call("Category.to_dict(from_dict)", <<d>>,
                       Category_to_dict(Category_from_dict(d)), None)
    /\ UNCHANGED <<store, file, db, today, assigned>>

\* Expense.from_dict(e.to_dict())
ExpenseThroughDict ==
    /\ \E e \in Expenses :
          call' = Call("Expense.from_dict(to_dict)", <<e>>,
                       Expense_from_dict(Expense_to_dict(e)), None)
    /\ UNCHANGED <<store, file, db, today, assigned>>

\* Expense.from_dict(d).to_dict()
ExpenseDictThroughRecord ==
    /\ \E d \in Expenses :
          call' = Call("Expense.to_dict(from_dict)", <<d>>,
                       Expense_to_dict(Expense_from_dict(d)), None)
    /\ UNCHANGED <<store, file, db, today, assigned>>

NextRecords ==
    \/ CategoryThroughDict
    \/ CategoryDictThroughRecord
    \/ ExpenseThroughDict
    \/ ExpenseDictThroughRecord

SpecRecords == Init /\ [][NextRecords]_vars

\* C18: a Category or an Expense converted to a dictionary and back has the
\* same fields, and a dictionary with exactly the record's keys converted to
\* a record and back is the same dictionary.
C18_RoundTrip ==
    LET x == call.args[1]
        y == call.ret
    IN  /\ call.op = "Category.from_dict(to_dict)" =>
              (y.id = x.id /\ y.name = x.name)
        /\ call.op = "Expense.from_dict(to_dict)" =>
              /\ y.id = x.id
              /\ y.category_id = x.category_id
              /\ y.amount = x.amount
              /\ y.description = x.description
              /\ y.date = x.date
        /\ call.op \in {"Category.to_dict(from_dict)", "Expense.to_dict(from_dict)"} =>
              y = x

C18_Witness ==
    /\ call.op = "Expense.from_dict(to_dict)"
    /\ call.args[1].id # call.args[1].category_id
    /\ call.ret.id = 999
    /\ call.ret.category_id = 7

----------------------------------------------------------------------------
(* Reads of a damaged data file *)

\* a date string that date.fromisoformat rejects
MalformedDates == {<<2024, 13, 1>>}

\* add_expense stores expense_date as given
ReadAddExpense ==
    StorageAddExpenseOf({1}, {1}, MalformedDates \cup {None}, "none")

Without(record, key) == [k \in DOMAIN record \ {key} |-> record[k]]

\* the file is edited by hand: an expense record loses a key
ExpenseFieldLost ==
    /\ store = "json"
    /\ file.kind = "json"
    /\ \E i \in DOMAIN file.expenses, k \in {"amount"} :
          /\ k \in DOMAIN file.expenses[i]
          /\ file' = [file EXCEPT !.expenses[i] = Without(@, k)]
          /\ call' = Call("environment", <<"expense", i, k>>, None, file)
    /\ UNCHANGED <<store, db, today, assigned>>

\* the file is edited by hand: a category record loses a key
CategoryFieldLost ==
    /\ store = "json"
    /\ file.kind = "json"
    /\ \E i \in DOMAIN file.categories, k \in {"name"} :
          /\ i = Len(file.categories)
          /\ k \in DOMAIN file.categories[i]
          /\ file' = [file EXCEPT !.categories[i] = Without(@, k)]
          /\ call' = Call("environment", <<"category", i, k>>, None, file)
    /\ UNCHANGED <<store, db, today, assigned>>

NextRead ==
    \/ StorageInit
    \/ ReadAddExpense
    \/ StorageGetExpenses
    \/ StorageGetCategories
    \/ DataFileLost
    \/ DataFileGarbled
    \/ ExpenseFieldLost
    \/ CategoryFieldLost

SpecRead == Init /\ [][NextRead]_vars

FileUnreadable(f) == f.kind # "json"

ExpenseFieldMissing(f) ==
    f.kind = "json" /\ \E i \in DOMAIN f.expenses : ~(ExpenseKeys \subseteq DOMAIN f.expenses[i])

ExpenseDateMalformed(f) ==
    /\ f.kind = "json"
    /\ \E i \in DOMAIN f.expenses :
          "date" \in DOMAIN f.expenses[i] /\ ~ValidDate(f.expenses[i].date)

CategoryFieldMissing(f) ==
    f.kind = "json" /\ \E i \in DOMAIN f.categories : ~(CategoryKeys \subseteq DOMAIN f.categories[i])

IsReadCall == call.op \in {"get_expenses", "get_categories"}

\* C19: whenever the persisted data is damaged (file missing or corrupt, a
\* record without one of its fields, an expense with a malformed date),
\* get_expenses and get_categories both return the empty list, and neither
\* changes the data file.
C19_ReadsFailSoft ==
    (IsReadCall /\ store = "json") =>
        /\ file = call.before
        /\ (\/ FileUnreadable(file)
            \/ ExpenseFieldMissing(file)
            \/ ExpenseDateMalformed(file)
            \/ CategoryFieldMissing(file)) => call.ret = <<>>

\* C19 as the code has it: each read returns the empty list when what it
\* decodes itself is damaged. get_expenses: file missing or corrupt, an
\* expense without a field, or, for a period other than "all", an expense
\* with a malformed date (for "all" the dates are not parsed and every record
\* is returned). get_categories: file missing or corrupt, or a category
\* without a field (damaged expenses do not matter). Neither changes the file.
C19_ReadsFailSoftWhereRead ==
    (IsReadCall /\ store = "json") =>
        /\ file = call.before
        /\ call.op = "get_expenses" =>
              /\ (\/ FileUnreadable(file)
                  \/ ExpenseFieldMissing(file)
                  \/ (call.args[1] # "all" /\ ExpenseDateMalformed(file)))
                     => call.ret = <<>>
              /\ (call.args[1] = "all" /\ ~FileUnreadable(file)
                                       /\ ~ExpenseFieldMissing(file))
                     => call.ret = file.expenses
        /\ call.op = "get_categories" =>
              /\ (FileUnreadable(file) \/ CategoryFieldMissing(file))
                     => call.ret = <<>>
              /\ (~FileUnreadable(file) /\ ~CategoryFieldMissing(file))
                     => call.ret = file.categories

C19_Witness ==
    /\ call.op = "get_expenses"
    /\ store = "json"
    /\ call.args[1] = "month"
    /\ ExpenseDateMalformed(file)
    /\ ~ExpenseFieldMissing(file)
    /\ Len(file.expenses) = 2
    /\ call.ret = <<>>

----------------------------------------------------------------------------
(* The categories after seeding *)

\* the store operations together with report generation
GenerateCategoryReportOnly == GenerateCategoryReportOf({None}, "none")

NextStoreAndReport ==
    \/ Next
    \/ GenerateCategoryReportOnly

SpecStoreAndReport == Init /\ [][NextStoreAndReport]_vars

\* C20: in every state of an initialized store, whatever adds, deletes, reads
\* and reports have run, get_categories returns the six seeded categories, ids 1..6
\* in ascending order with their seeded names.
C20_CategoriesFixed ==
    store # "none" =>
        get_categories = [i \in 1..6 |-> Category(i, SixNames[i])]

C20_Witness ==
    /\ store = "json"
    /\ call.op = "delete_expense"
    /\ call.ret = TRUE
    /\ Len(get_expenses("all")) = 1
    /\ Len(get_categories) = 6

----------------------------------------------------------------------------
(* Referential integrity of what the commands store *)

\* C21: after any sequence of add and delete commands on an initialized
\* store, the category_id of every stored expense is the id of a category that
\* get_categories returns.
C21_CommandsKeepCategoryReferences ==
    store = "json" =>
        \A e \in Range(Storage_get_expenses(file, "all", today)) :
            \E c \in Range(Storage_get_categories(file)) : c.id = e.category_id

C21_Witness ==
    /\ store = "json"
    /\ call.op = "handle_delete"
    /\ call.ret = TRUE
    /\ Len(Storage_get_expenses(file, "all", today)) = 1
    /\ Storage_get_expenses(file, "all", today)[1].category_id = 2
    /\ Len(Storage_get_categories(file)) = 6

----------------------------------------------------------------------------
(* add_expense on a data file that cannot be loaded *)

\* C22: when the data file is missing or is not JSON as add_expense loads it,
\* the call either leaves the file as it is or writes a document that still
\* has the seeded categories and hands out an id above every id handed out
\* before; it never writes a document without the categories or with the
\* counter reset.
C22_AddKeepsDataOnReadFailure ==
    (store = "json" /\ call.op = "add_expense" /\ call.before.kind # "json") =>
        LET earlier == IF call.ret THEN SubSeq(assigned, 1, Len(assigned) - 1)
                       ELSE assigned
        IN  \/ file = call.before
            \/ /\ file.kind = "json"
               /\ Len(file.categories) = Len(initial_categories)
               /\ \A i \in DOMAIN earlier : earlier[i] < file.next_id - 1

----------------------------------------------------------------------------
(* The two stores driven by the same calls *)

\* Storage(data_file) and Database(db_path), both on fresh locations
BothInit ==
    /\ store = "none"
    /\ store' = "both"
    /\ file' = Storage_ensure_data_file_exists(file)
    /\ db' = Database_init_database(db)
    /\ call' = Call("Storage, Database", <<file.kind, db.exists>>, None, None)
    /\ UNCHANGED <<today, assigned>>

\* the same add_expense call on each store; ret holds both results
BothAddExpense ==
    /\ store = "both"
    /\ Len(assigned) < MaxAdds
    /\ \E c \in CategoryIds, a \in Amounts, t \in Descriptions, d \in Dates \cup {None} :
          LET s == Storage_add_expense(file, c, a, t, d, today, "none")
              q == Database_add_expense(db, c, a, t, d, today)
          IN  /\ file' = s.file
              /\ db' = q.db
              /\ call' = Call("add_expense", <<c, a, t, d>>, <<s.ret, q.ret>>, None)
              /\ assigned' = Append(assigned, s.id)
    /\ UNCHANGED <<store, today>>

\* the same delete_expense call on each store; ret holds both results
BothDeleteExpense ==
    /\ store = "both"
    /\ \E i \in DeleteIds :
          LET s == Storage_delete_expense(file, i, "none")
              q == Database_delete_expense(db, i)
          IN  /\ file' = s.file
              /\ db' = q.db
              /\ call' = Call("delete_expense", <<i>>, <<s.ret, q.ret>>, None)
    /\ UNCHANGED <<store, today, assigned>>

NextBoth ==
    \/ BothInit
    \/ BothAddExpense
    \/ BothDeleteExpense

SpecBoth == Init /\ [][NextBoth]_vars

\* C23: after the same add_expense and delete_expense calls on a fresh JSON
\* store and a fresh SQLite store with the same today, every call returned the
\* same boolean from both, get_expenses returns the same set of records from
\* both for each of the five periods, and get_categories returns the same
\* categories.
C23_BackendsEquivalent ==
    store = "both" =>
        /\ call.op \in {"add_expense", "delete_expense"} => call.ret[1] = call.ret[2]
        /\ \A p \in Periods :
              Range(Storage_get_expenses(file, p, today))
              = Range(Database_get_expenses(db, p, today))
        /\ Storage_get_categories(file) = Database_get_categories(db)

====
